---- MODULE Spec2Model ----
(***************************************************************************)
(* Model of api_etl: the DateConverter of utils_misc.py and the            *)
(* DayMatrixBuilder / save_day_matrices_as_csv of prediction.py.           *)
(*                                                                         *)
(* Text (dates, times) is a sequence of one-character strings, so that     *)
(* formatting (strftime, str, %) and parsing (strptime, int, slicing) are  *)
(* modelled by what they do.  A civil instant (datetime) is a record       *)
(* [Y, m, d, H, M, S].  A nullable cell of a table is a sequence: <<>> is  *)
(* null (None / NaN), <<v>> holds the value v; a text cell holds the text  *)
(* itself, which is never empty.                                           *)
(***************************************************************************)
EXTENDS Integers, Sequences, FiniteSets, TLC

VARIABLES
    args,      \* arguments of the last DateConverter construction
    conv,      \* the DateConverter that construction produced (or its error)
    back,      \* a DateConverter rebuilt from conv's special_date/special_time
    input,     \* what the last DayMatrixBuilder was constructed from
    mat,       \* the DayMatrixBuilder object: status, datetime, day, time, df
    callerDf,  \* the caller's table (the df argument) as the caller sees it
    rdf,       \* result of the last get_predictable call
    now,       \* the wall clock read by get_paris_local_datetime_now
    batch,     \* progress of save_day_matrices_as_csv
    files,     \* the csv files written so far: file name -> matrix written
    gen,       \* the generator of the last chunks(l, n) call and what it yielded
    mongo      \* the last mongo_async_upsert_items call: its tasks, its result

vars ==
    <<args, conv, back, input, mat, callerDf, rdf, now, batch, files, gen, mongo>>

-----------------------------------------------------------------------------
(* Text                                                                    *)

Digits == <<"0", "1", "2", "3", "4", "5", "6", "7", "8", "9">>

IsDigit(c) == \E i \in 1..10 : Digits[i] = c

DigitVal(c) == (CHOOSE i \in 1..10 : Digits[i] = c) - 1

AllDigits(s) == \A i \in 1..Len(s) : IsDigit(s[i])

RECURSIVE ToInt(_)
ToInt(s) ==
    IF s = <<>> THEN 0
    ELSE ToInt(SubSeq(s, 1, Len(s) - 1)) * 10 + DigitVal(s[Len(s)])

\* int(s) succeeds on a non-empty run of digits
PyIntOk(s) == s # <<>> /\ AllDigits(s)

RECURSIVE PyStr(_)
\* str(n) for n >= 0: decimal digits, no padding
PyStr(n) ==
    IF n < 10 THEN <<Digits[n + 1]>>
    ELSE PyStr(n \div 10) \o <<Digits[(n % 10) + 1]>>

\* %H, %M, %S, %m, %d of strftime: two digits, zero padded
Pad2(n) == IF n < 10 THEN <<"0">> \o PyStr(n) ELSE PyStr(n)

\* %Y of strftime: four digits
Pad4(n) ==
    IF n < 10 THEN <<"0", "0", "0">> \o PyStr(n)
    ELSE IF n < 100 THEN <<"0", "0">> \o PyStr(n)
    ELSE IF n < 1000 THEN <<"0">> \o PyStr(n)
    ELSE PyStr(n)

\* s[:k] and s[k:] of Python
Take(s, k) == SubSeq(s, 1, IF k < Len(s) THEN k ELSE Len(s))
Drop(s, k) == SubSeq(s, k + 1, Len(s))

-----------------------------------------------------------------------------
(* Calendar: datetime and timedelta                                        *)

IsLeap(y) == (y % 4 = 0 /\ y % 100 # 0) \/ y % 400 = 0

DaysInMonth(y, m) ==
    IF m = 2 THEN (IF IsLeap(y) THEN 29 ELSE 28)
    ELSE IF m \in {4, 6, 9, 11} THEN 30 ELSE 31

RECURSIVE DaysBeforeMonth(_, _)
DaysBeforeMonth(y, m) ==
    IF m = 1 THEN 0 ELSE DaysBeforeMonth(y, m - 1) + DaysInMonth(y, m - 1)

\* proleptic Gregorian ordinal of a date (datetime.toordinal)
Ordinal(dt) ==
    LET y == dt.Y - 1
    IN  365 * y + (y \div 4) - (y \div 100) + (y \div 400)
        + DaysBeforeMonth(dt.Y, dt.m) + dt.d

\* dt + timedelta(days=1)
PlusOneDay(dt) ==
    IF dt.d < DaysInMonth(dt.Y, dt.m) THEN [dt EXCEPT !.d = dt.d + 1]
    ELSE IF dt.m < 12 THEN [dt EXCEPT !.m = dt.m + 1, !.d = 1]
    ELSE [dt EXCEPT !.Y = dt.Y + 1, !.m = 1, !.d = 1]

\* a subtraction of one day that was forgotten
MinusOneDayForgotten(dt) == dt

\* dt - timedelta(days=1)
MinusOneDay(dt) ==
    IF dt.d > 1 THEN [dt EXCEPT !.d = dt.d - 1]
    ELSE IF dt.m > 1
         THEN [dt EXCEPT !.m = dt.m - 1, !.d = DaysInMonth(dt.Y, dt.m - 1)]
    ELSE [dt EXCEPT !.Y = dt.Y - 1, !.m = 12, !.d = 31]

SecondsOfDay(dt) == dt.H * 3600 + dt.M * 60 + dt.S

\* (a - b).total_seconds()
TotalSeconds(a, b) ==
    (Ordinal(a) - Ordinal(b)) * 86400 + SecondsOfDay(a) - SecondsOfDay(b)

\* the absent datetime (None); every datetime object is truthy
NoneDt == [Y |-> 0, m |-> 0, d |-> 0, H |-> 0, M |-> 0, S |-> 0]

\* the absent text (None); like the empty text it is falsy
None == <<>>

-----------------------------------------------------------------------------
(* datetime.strftime / datetime.strptime                                   *)

FmtDate == <<"%Y", "%m", "%d">>
FmtTime == <<"%H", ":", "%M", ":", "%S">>
FmtMinSec == <<"%M", ":", "%S">>
FmtFull == FmtDate \o FmtTime
FmtApi == <<"%d", "/", "%m", "/", "%Y", " ", "%H", ":", "%M">>
FmtAt == FmtDate \o <<"-">> \o FmtTime

IsDirective(tok) == tok \in {"%Y", "%m", "%d", "%H", "%M", "%S"}

Field(dt, tok) ==
    CASE tok = "%Y" -> Pad4(dt.Y)
      [] tok = "%m" -> Pad2(dt.m)
      [] tok = "%d" -> Pad2(dt.d)
      [] tok = "%H" -> Pad2(dt.H)
      [] tok = "%M" -> Pad2(dt.M)
      [] tok = "%S" -> Pad2(dt.S)

RECURSIVE strftime(_, _)
strftime(dt, fmt) ==
    IF fmt = <<>> THEN <<>>
    ELSE (IF IsDirective(fmt[1]) THEN Field(dt, fmt[1]) ELSE <<fmt[1]>>)
         \o strftime(dt, Tail(fmt))

\* the regular expression of each directive in _strptime.py, by length of
\* the text it is tried on (the two-character alternatives come first)
Fits(tok, t) ==
    LET a == t[1]
        two == Len(t) = 2
        b == IF two THEN t[2] ELSE "0"
    IN  CASE tok = "%Y" -> Len(t) = 4 /\ AllDigits(t)
          [] tok = "%m" ->
                IF two THEN (a = "1" /\ b \in {"0", "1", "2"})
                            \/ (a = "0" /\ IsDigit(b) /\ b # "0")
                ELSE IsDigit(a) /\ a # "0"
          [] tok = "%d" ->
                IF two THEN (a = "3" /\ b \in {"0", "1"})
                            \/ (a \in {"1", "2"} /\ IsDigit(b))
                            \/ (a \in {"0", " "} /\ IsDigit(b) /\ b # "0")
                ELSE IsDigit(a) /\ a # "0"
          [] tok = "%H" ->
                IF two THEN (a = "2" /\ b \in {"0", "1", "2", "3"})
                            \/ (a \in {"0", "1"} /\ IsDigit(b))
                ELSE IsDigit(a)
          [] tok = "%M" ->
                IF two THEN a \in {"0", "1", "2", "3", "4", "5"} /\ IsDigit(b)
                ELSE IsDigit(a)
          [] tok = "%S" ->
                IF two THEN (a = "6" /\ b \in {"0", "1"})
                            \/ (a \in {"0", "1", "2", "3", "4", "5"} /\ IsDigit(b))
                ELSE IsDigit(a)

FieldVal(t) == ToInt(IF t[1] = " " THEN Tail(t) ELSE t)

SetField(acc, tok, v) ==
    CASE tok = "%Y" -> [acc EXCEPT !.Y = v]
      [] tok = "%m" -> [acc EXCEPT !.m = v]
      [] tok = "%d" -> [acc EXCEPT !.d = v]
      [] tok = "%H" -> [acc EXCEPT !.H = v]
      [] tok = "%M" -> [acc EXCEPT !.M = v]
      [] tok = "%S" -> [acc EXCEPT !.S = v]

NoMatch == [ok |-> FALSE, acc |-> NoneDt, end |-> 0]

RECURSIVE SkipSpaces(_, _)
SkipSpaces(s, pos) ==
    IF pos <= Len(s) /\ s[pos] = " " THEN SkipSpaces(s, pos + 1) ELSE pos

RECURSIVE Match(_, _, _, _, _)
RECURSIVE MatchToken(_, _, _, _, _, _)
RECURSIVE Try(_, _, _, _, _, _)

\* the directive fmt[i] tried on the n characters of s from pos, then the
\* rest of the format on the rest of s
Try(s, pos, fmt, i, acc, n) ==
    IF pos + n - 1 <= Len(s) /\ Fits(fmt[i], SubSeq(s, pos, pos + n - 1))
    THEN Match(s, pos + n, fmt, i + 1,
               SetField(acc, fmt[i], FieldVal(SubSeq(s, pos, pos + n - 1))))
    ELSE NoMatch

\* backtracking: the first alternative unless it fails
OrElse(first, second) == IF first.ok THEN first ELSE second

MatchToken(s, pos, fmt, i, acc, tok) ==
    IF tok = "%Y" THEN Try(s, pos, fmt, i, acc, 4)
    ELSE IF IsDirective(tok)
         THEN OrElse(Try(s, pos, fmt, i, acc, 2), Try(s, pos, fmt, i, acc, 1))
    ELSE IF tok = " "
         THEN (IF pos <= Len(s) /\ s[pos] = " "
               THEN Match(s, SkipSpaces(s, pos), fmt, i + 1, acc)
               ELSE NoMatch)
    ELSE IF pos <= Len(s) /\ s[pos] = tok
         THEN Match(s, pos + 1, fmt, i + 1, acc)
    ELSE NoMatch

\* re.match of the format's regular expression on s from pos, with the
\* alternatives tried in the expression's order and backtracking
Match(s, pos, fmt, i, acc) ==
    IF i > Len(fmt) THEN [ok |-> TRUE, acc |-> acc, end |-> pos - 1]
    ELSE MatchToken(s, pos, fmt, i, acc, fmt[i])

\* what strptime makes of a match r of a text of len characters: ValueError
\* when the text does not match, text remains after the match, or the
\* fields are no date
Parsed(r, len) ==
    IF r.ok /\ r.end = len
       /\ r.acc.Y >= 1
       /\ r.acc.d <= DaysInMonth(r.acc.Y, r.acc.m)
       /\ r.acc.S <= 59
    THEN [status |-> "ok", dt |-> r.acc]
    ELSE [status |-> "ValueError", dt |-> NoneDt]

\* datetime.strptime(s, fmt)
strptime(s, fmt) ==
    Parsed(Match(s, 1, fmt,
                 1, [Y |-> 1900, m |-> 1, d |-> 1, H |-> 0, M |-> 0, S |-> 0]),
           Len(s))

-----------------------------------------------------------------------------
(* utils_misc.DateConverter                                                *)

NoArgs ==
    [dt |-> NoneDt, api_date |-> None, normal_date |-> None,
     normal_time |-> None, special_date |-> None, special_time |-> None,
     force_regular_date |-> FALSE]

\* no converter: the construction raised
Raised(err) ==
    [status |-> err, dt |-> NoneDt, api_date |-> None, normal_date |-> None,
     normal_time |-> None, special_date |-> None, special_time |-> None]

_api_date_to_dt(api_date) == strptime(api_date, FmtApi)

_normal_datetime_to_dt(normal_date, normal_time) ==
    strptime(normal_date \o normal_time, FmtFull)

\* a tuple of extended hours that stops one short
ExtendedHoursShort == {24, 25, 26}

\* the hours of the extended clock that stand for the next civil day
ExtendedHours == {24, 25, 26, 27}

\* the hours _dt_to_special_datetime moves to the previous service day
EarlyHours == {0, 1, 2}

HourLimit == 29

\* the end of _special_datetime_to_dt: the day added to what was parsed
AddDay(p, add_day) ==
    IF p.status = "ok" /\ add_day
    THEN [status |-> "ok", dt |-> PlusOneDay(p.dt)]
    ELSE p

\* _special_datetime_to_dt once int(hour) has given hour
SpecialWithHour(special_date, special_time, force_regular_date, hour) ==
    IF ~(0 <= hour /\ hour < HourLimit)
    THEN [status |-> "AssertionError", dt |-> NoneDt]
    ELSE AddDay(strptime(special_date
                           \o (IF hour \in ExtendedHours
                               THEN PyStr(hour - 24)
                               ELSE Take(special_time, 2))
                           \o Drop(special_time, 2),
                         FmtFull),
                hour \in ExtendedHours /\ ~force_regular_date)

_special_datetime_to_dt(special_date, special_time, force_regular_date) ==
    IF ~PyIntOk(Take(special_time, 2))
    THEN [status |-> "ValueError", dt |-> NoneDt]
    ELSE SpecialWithHour(special_date, special_time, force_regular_date,
                         ToInt(Take(special_time, 2)))

_dt_to_special_datetime(dt) ==
    IF dt.H \in EarlyHours
    THEN [special_date |-> strftime(MinusOneDay(dt), FmtDate),
          special_time |-> PyStr(dt.H + 24) \o <<":">> \o strftime(dt, FmtMinSec)]
    ELSE [special_date |-> strftime(dt, FmtDate),
          special_time |-> strftime(dt, FmtTime)]

\* the first step of DateConverter.__init__: the instant that the first
\* input form present denotes, or the error raised on the way
FindDt(a) ==
    IF a.api_date # None THEN _api_date_to_dt(a.api_date)
    ELSE IF a.normal_date # None /\ a.normal_time # None
         THEN _normal_datetime_to_dt(a.normal_date, a.normal_time)
    ELSE IF a.special_time # None /\ a.special_date # None
         THEN _special_datetime_to_dt(a.special_date, a.special_time,
                                      a.force_regular_date)
    ELSE IF a.dt # NoneDt THEN [status |-> "ok", dt |-> a.dt]
    ELSE [status |-> "AssertionError", dt |-> NoneDt]

\* the converter of the instant dt, with its text forms
WithForms(dt, sp) ==
    [status |-> "ok",
     dt |-> dt,
     api_date |-> strftime(dt, FmtApi),
     normal_date |-> strftime(dt, FmtDate),
     normal_time |-> strftime(dt, FmtTime),
     special_date |-> sp.special_date,
     special_time |-> sp.special_time]

\* the rest of DateConverter.__init__ once the instant is found
Converter(found) ==
    IF found.status # "ok" THEN Raised(found.status)
    ELSE WithForms(found.dt, _dt_to_special_datetime(found.dt))

\* DateConverter.__init__: the instant found, then its text forms
DateConverter(a) == Converter(FindDt(a))

\* the end of compute_delay_from: o is the instant of the other converter
DelayTo(self, o) ==
    IF o.status # "ok" THEN [status |-> o.status, delay |-> 0]
    ELSE [status |-> "ok", delay |-> TotalSeconds(self.dt, o.dt)]

\* DateConverter.compute_delay_from without dc: seconds, or the error of
\* the other converter's construction; of either converter only dt is read
compute_delay_from(self, other) == DelayTo(self, FindDt(other))

\* the delay of the converter found as c from other, or the error of c
DelayBetween(c, other) ==
    IF c.status # "ok" THEN [status |-> c.status, delay |-> 0]
    ELSE compute_delay_from(c, other)

\* DateConverter(special_date=..., special_time=...)
Special(special_date, special_time) ==
    [NoArgs EXCEPT !.special_date = special_date, !.special_time = special_time]

\* the argument dt=...
FromDt(dt) == [NoArgs EXCEPT !.dt = dt]

-----------------------------------------------------------------------------
(* State shared by the specifications: what each part holds before it ran  *)

NoConv == Raised("none")

IdleInput == [mode |-> "none"]
IdleMat == [status |-> "none"]
IdleRdf == [status |-> "none"]
IdleBatch == [pc |-> "idle"]
NoFiles == <<>>
IdleGen == [pc |-> "idle"]
IdleMongo == [pc |-> "idle"]

-----------------------------------------------------------------------------
(* Specification of the DateConverter: constructions from bounded inputs  *)

\* extended hours tried: 0 .. MaxHour, past the limit the constructor asserts
MaxHour == 29

Date(Y, m, d) == [Y |-> Y, m |-> m, d |-> d, H |-> 0, M |-> 0, S |-> 0]

At(date, H, M, S) == [date EXCEPT !.H = H, !.M = M, !.S = S]

\* days around a month end, a year end and a leap day
DateMenu ==
    {Date(2024, 2, 28), Date(2024, 2, 29), Date(2024, 12, 31),
     Date(2025, 1, 1), Date(2025, 2, 28)}

MinuteMenu == {0, 10, 59}
SecondMenu == {0, 59}

\* a time of the extended clock as text, "HH:MM:SS"
ExtTime(H, M, S) == Pad2(H) \o <<":">> \o Pad2(M) \o <<":">> \o Pad2(S)

DateText(date) == strftime(date, FmtDate)

InitDate ==
    /\ args = NoArgs
    /\ conv = NoConv
    /\ back = NoConv
    /\ input = IdleInput
    /\ mat = IdleMat
    /\ callerDf = <<>>
    /\ rdf = IdleRdf
    /\ now = NoneDt
    /\ batch = IdleBatch
    /\ files = NoFiles
    /\ gen = IdleGen
    /\ mongo = IdleMongo

othersDate == <<input, mat, callerDf, rdf, now, batch, files, gen, mongo>>

\* DateConverter(special_date=d, special_time=t, force_regular_date=f)
NewFromSpecial ==
    \E date \in DateMenu, H \in 0..MaxHour, M \in MinuteMenu, S \in SecondMenu,
       force \in BOOLEAN :
        LET a == [Special(DateText(date), ExtTime(H, M, S))
                    EXCEPT !.force_regular_date = force]
        IN  /\ conv = NoConv
            /\ args' = a
            /\ conv' = DateConverter(a)
            /\ back' = NoConv
            /\ UNCHANGED othersDate

\* DateConverter(dt=instant)
NewFromDt ==
    \E date \in DateMenu, H \in 0..23, M \in MinuteMenu, S \in SecondMenu :
        /\ conv = NoConv
        /\ args' = FromDt(At(date, H, M, S))
        /\ conv' = DateConverter(args')
        /\ back' = NoConv
        /\ UNCHANGED othersDate

\* DateConverter(special_date=c.special_date, special_time=c.special_time)
\* for a converter c that was built
Rebuild ==
    /\ conv.status = "ok"
    /\ back = NoConv
    /\ back' = DateConverter(Special(conv.special_date, conv.special_time))
    /\ UNCHANGED <<args, conv>>
    /\ UNCHANGED othersDate

\* DateConverter(): no input form
NewFromNothing ==
    /\ conv = NoConv
    /\ args' = NoArgs
    /\ conv' = DateConverter(NoArgs)
    /\ back' = NoConv
    /\ UNCHANGED othersDate

\* DateConverter(dt=instant, special_date=d, special_time=t): two input
\* forms, of the same instant or of two instants
NewFromSeveral ==
    /\ conv = NoConv
    /\ \E date \in DateMenu, H \in {10, 25}, dtH \in {10, 11} :
          /\ args' = [Special(DateText(date), ExtTime(H, 10, 0))
                        EXCEPT !.dt = At(date, dtH, 10, 0)]
          /\ conv' = DateConverter(args')
    /\ back' = NoConv
    /\ UNCHANGED othersDate

NextDate ==
    NewFromSpecial \/ NewFromDt \/ Rebuild \/ NewFromNothing \/ NewFromSeveral

SpecDate == InitDate /\ [][NextDate]_vars

-----------------------------------------------------------------------------
(* Properties of the DateConverter (checked under SpecDate)                *)

\* the extended pair given to the constructor, read field by field
GivenDate ==
    Date(ToInt(SubSeq(args.special_date, 1, 4)),
         ToInt(SubSeq(args.special_date, 5, 6)),
         ToInt(SubSeq(args.special_date, 7, 8)))
GivenHour == ToInt(SubSeq(args.special_time, 1, 2))
GivenMinute == ToInt(SubSeq(args.special_time, 4, 5))
GivenSecond == ToInt(SubSeq(args.special_time, 7, 8))

BuiltFromSpecial == args.special_time # None /\ conv # NoConv
BuiltFromDt == args.dt # NoneDt /\ args.special_time = None /\ conv # NoConv

\* C8: for every extended (date, time) pair with hour in [0,29), the
\* construction (without force_regular_date) succeeds and the special_date /
\* special_time it exposes are the pair given.
C8_ExtendedRoundTrip ==
    (BuiltFromSpecial /\ ~args.force_regular_date /\ GivenHour < HourLimit)
        => /\ conv.status = "ok"
           /\ conv.special_date = args.special_date
           /\ conv.special_time = args.special_time

\* C9: for every civil instant, converting it to extended form and
\* constructing a new converter from that extended pair yields the identical
\* absolute instant.
C9_CivilRoundTrip ==
    /\ BuiltFromDt => conv.status = "ok" /\ conv.dt = args.dt
    /\ (BuiltFromDt /\ back # NoConv) => back.status = "ok" /\ back.dt = args.dt

\* an instant of the early hours of a new year went to the extended clock of
\* the previous year and came back
C9_Witness ==
    /\ BuiltFromDt
    /\ args.dt = At(Date(2025, 1, 1), 1, 10, 59)
    /\ conv.special_date = DateText(Date(2024, 12, 31))
    /\ conv.special_time = ExtTime(25, 10, 59)
    /\ back.status = "ok"
    /\ back.dt = args.dt

FormsGiven ==
    {f \in {"dt", "api", "normal", "special"} :
        \/ f = "dt" /\ args.dt # NoneDt
        \/ f = "api" /\ args.api_date # None
        \/ f = "normal" /\ args.normal_date # None /\ args.normal_time # None
        \/ f = "special" /\ args.special_date # None /\ args.special_time # None}

\* the instant the extended pair given denotes, read on its own
SpecialAlone == FindDt(Special(args.special_date, args.special_time))

\* C11: the construction ends in an error when no input form is given,
\* when two input forms that denote different instants are given, and when
\* the extended hour is outside [0,29); it succeeds when exactly one
\* well-formed input form is given
C11_ConstructionErrors ==
    conv # NoConv =>
        /\ FormsGiven = {} => conv.status # "ok"
        /\ (/\ FormsGiven = {"dt", "special"}
            /\ SpecialAlone.status = "ok"
            /\ SpecialAlone.dt # args.dt) => conv.status # "ok"
        /\ ("special" \in FormsGiven /\ GivenHour >= HourLimit)
              => conv.status # "ok"
        /\ (FormsGiven = {"dt"}) => conv.status = "ok"
        /\ (FormsGiven = {"special"} /\ GivenHour < HourLimit)
              => conv.status = "ok"

-----------------------------------------------------------------------------
(* pandas: tables, columns, selections                                     *)
(*                                                                         *)
(* A DataFrame is a sequence of rows; a row is a record whose fields are   *)
(* the columns the table has so far.  Raw cells are text; derived cells    *)
(* are numbers or booleans wrapped in a sequence when they can be null.    *)

\* the marker of an absent real-time field, and the null it is replaced by
Unknown == <<"Unknown">>
NaN == <<>>

notnull(v) == v # NaN

\* r with the column col set to v
WithCol(r, col, v) == (col :> v) @@ r

\* the rows i = 1 .. n of a table, each given by row(i)
Table(n, row(_)) == [i \in 1..n |-> row(i)] \o <<>>

\* df[col] = series: the series is aligned on the index, so a row it does
\* not cover gets NaN
SetCol(df, col, cell(_)) ==
    Table(Len(df), LAMBDA i : WithCol(df[i], col, cell(df[i])))

\* pd.to_numeric(text, errors="coerce")
to_numeric(v) == IF PyIntOk(v) THEN <<ToInt(v)>> ELSE NaN

-----------------------------------------------------------------------------
(* prediction.DayMatrixBuilder                                             *)

\* the first lines of __init__: the observation instant and the service day
InitDayTime(day, time, clock) ==
    IF day # None /\ time # None
    THEN LET p == strptime(day \o time, FmtFull)
         IN  [status |-> p.status, datetime |-> p.dt, day |-> day, time |-> time]
    ELSE [status |-> "ok", datetime |-> clock,
          day |-> strftime(clock, FmtDate), time |-> strftime(clock, FmtTime)]

_clean_initial_df(df) ==
    LET clean(r) ==
            [k \in DOMAIN r |->
                LET v == IF r[k] = Unknown THEN NaN ELSE r[k]
                IN  IF k = "StopTime_stop_sequence" THEN to_numeric(v) ELSE v]
    IN  Table(Len(df), LAMBDA i : clean(df[i]))

\* DateConverter(special_date=self.day, special_time=departure_time)
\*     .compute_delay_from(dt=self.datetime)
ScheduleVsNow(self, r) ==
    DelayBetween(FindDt(Special(self.day, r.StopTime_departure_time)),
                 FromDt(self.datetime))

\* DateConverter(special_date=passage_day, special_time=passage_time)
\*     .compute_delay_from(dt=self.datetime)
RealTimeVsNow(self, r) ==
    DelayBetween(FindDt(Special(r.RealTime_expected_passage_day,
                                r.RealTime_expected_passage_time)),
                 FromDt(self.datetime))

\* DateConverter(special_date=passage_day, special_time=passage_time)
\*     .compute_delay_from(special_date=self.day, special_time=departure_time)
RealTimeVsSchedule(self, r) ==
    DelayBetween(FindDt(Special(r.RealTime_expected_passage_day,
                                r.RealTime_expected_passage_time)),
                 Special(self.day, r.StopTime_departure_time))

\* the comparison of a delay with the observation instant: x >= 0
PassedTest(x) == x >= 0

\* the first error of the per-row results res, in row order
FirstError(res) ==
    res[CHOOSE i \in 1..Len(res) :
            /\ res[i].status \notin {"ok", "skipped"}
            /\ \A j \in 1..(i - 1) : res[j].status \in {"ok", "skipped"}].status

\* the column col of df set from the per-row results res, or the error
\* raised (the table is then left as it was)
Assigned(df, col, res) ==
    IF \A i \in 1..Len(res) : res[i].status = "skipped"
    THEN [status |-> "ValueError", df |-> df]
    ELSE IF \E i \in 1..Len(res) : res[i].status \notin {"ok", "skipped"}
         THEN [status |-> FirstError(res), df |-> df]
    ELSE [status |-> "ok",
          df |-> Table(Len(df), LAMBDA i :
                    WithCol(df[i], col,
                            IF res[i].status = "ok" THEN <<res[i].delay>>
                            ELSE NaN))]

\* self.df[col] = self.df[keep].apply(f, axis=1): apply on a selection
\* without rows gives back an empty DataFrame, not a Series, and assigning
\* that to one column raises ValueError
ApplyInto(df, col, keep(_), f(_)) ==
    Assigned(df, col,
             Table(Len(df), LAMBDA i :
                 IF keep(df[i]) THEN f(df[i])
                 ELSE [status |-> "skipped", delay |-> 0]))

hasRealTime(r) == notnull(r.RealTime_expected_passage_time)

isTrue(v) == v = <<TRUE>>

\* the steps of _compute_trip_state, each on the result s of the steps
\* before it; a step that raises leaves the table with the columns set
\* before it, and no later step runs

AtDatetime(self, df) ==
    [status |-> "ok",
     df |-> SetCol(df, "TripState_at_datetime",
                   LAMBDA r : strftime(self.datetime, FmtAt))]

\* the booleans of TripState_passed_schedule from the delays computed
PassedOf(df, delays) ==
    IF delays.status # "ok" THEN [status |-> delays.status, df |-> df]
    ELSE [status |-> "ok",
          df |-> Table(Len(df), LAMBDA i :
                    WithCol(df[i], "TripState_passed_schedule",
                            PassedTest(delays.df[i].sched_delay[1])))]

PassedSchedule(self, s) ==
    IF s.status # "ok" THEN s
    ELSE PassedOf(s.df, ApplyInto(s.df, "sched_delay", LAMBDA r : TRUE,
                                  LAMBDA r : ScheduleVsNow(self, r)))

RealTimeDiff(self, s) ==
    IF s.status # "ok" THEN s
    ELSE ApplyInto(s.df, "TripState_real_passage_vs_prediction_time_diff",
                   hasRealTime, LAMBDA r : RealTimeVsNow(self, r))

PassedRealtime(s) ==
    IF s.status # "ok" THEN s
    ELSE [status |-> "ok",
          df |-> SetCol(s.df, "TripState_passed_realtime",
                   LAMBDA r :
                     IF notnull(r.TripState_real_passage_vs_prediction_time_diff)
                     THEN <<PassedTest(
                              r.TripState_real_passage_vs_prediction_time_diff[1])>>
                     ELSE NaN)]

ObservedDelayOfEveryPassage(self, s) ==
    IF s.status # "ok" THEN s
    ELSE ApplyInto(s.df, "TripState_observed_delay", hasRealTime,
                   LAMBDA r : RealTimeVsSchedule(self, r))

ObservedDelay(self, s) ==
    IF s.status # "ok" THEN s
    ELSE ApplyInto(s.df, "TripState_observed_delay",
                   LAMBDA r : isTrue(r.TripState_passed_realtime),
                   LAMBDA r : RealTimeVsSchedule(self, r))

ExpectedDelay(self, s) ==
    IF s.status # "ok" THEN s
    ELSE ApplyInto(s.df, "TripState_expected_delay",
                   LAMBDA r : ~isTrue(r.TripState_passed_realtime)
                              /\ hasRealTime(r),
                   LAMBDA r : RealTimeVsSchedule(self, r))

_compute_trip_state(self, df0) ==
    ExpectedDelay(self,
      ObservedDelay(self,
        PassedRealtime(
          RealTimeDiff(self,
            PassedSchedule(self,
              AtDatetime(self, df0))))))

\* a trip is rolling when its status is strictly between 0 and 1
StatusRolling(st) == st.num > 0 /\ st.num < st.den

isRolling(r) == StatusRolling(r.trip_status)

SetMax(S) == CHOOSE x \in S : \A y \in S : y <= x

RECURSIVE Flatten(_)
\* the concatenation of a sequence of sequences
Flatten(ss) == IF ss = <<>> THEN <<>> ELSE Head(ss) \o Flatten(Tail(ss))

\* the copies of the row r in a left join: one per match, one with NaN
\* when there is none
Joined(r, ms, col) ==
    IF ms = <<>> THEN <<WithCol(r, col, NaN)>>
    ELSE Table(Len(ms), LAMBDA j : WithCol(r, col, ms[j].val))

\* df.join(right, on="Trip_trip_id"): a left join; right is a sequence of
\* [key, val]; a row without a match keeps NaN, a row with several matches
\* is repeated once per match
JoinOnTrip(df, right, col) ==
    Flatten(Table(Len(df), LAMBDA i :
        Joined(df[i], SelectSeq(right, LAMBDA e : e.key = df[i].Trip_trip_id),
               col)))

\* the rows at as (trip, value of col)
Keyed(at, col) ==
    Table(Len(at), LAMBDA j : [key |-> at[j].Trip_trip_id, val |-> at[j][col]])

AtEverySequence(df, col) ==
    Keyed(SelectSeq(df, LAMBDA r : notnull(r.last_sequence_number)), col)

\* the rows at their trip's last observed stop, as (trip, value of col)
AtLastSequence(df, col) ==
    Keyed(SelectSeq(df, LAMBDA r :
              /\ notnull(r.last_sequence_number)
              /\ r.last_sequence_number = r.StopTime_stop_sequence),
          col)

ConfirmedWhateverRealtime(r) == isRolling(r)

\* the rows whose stop sequence counts for last_sequence_number
Confirmed(r) == isRolling(r) /\ isTrue(r.TripState_passed_realtime)

ScheduleVsLastReversed(self, r) ==
    DelayBetween(FindDt(Special(self.day, r.last_observed_scheduled_dep_time)),
                 Special(self.day, r.StopTime_departure_time))

\* DateConverter(special_date=self.day, special_time=departure_time)
\*     .compute_delay_from(special_date=self.day,
\*                         special_time=last_observed_scheduled_dep_time)
ScheduleVsLast(self, r) ==
    DelayBetween(FindDt(Special(self.day, r.StopTime_departure_time)),
                 Special(self.day, r.last_observed_scheduled_dep_time))

\* the indexes of the rows of the trip t
OfTrip(df, t) == {i \in 1..Len(df) : df[i].Trip_trip_id = t}

\* the steps of _trip_level, each on the table of the step before it

TotalSequenceOfTable(df) ==
    SetCol(df, "total_sequence", LAMBDA r : Len(df))

TotalSequence(df) ==
    SetCol(df, "total_sequence",
           LAMBDA r : Cardinality(OfTrip(df, r.Trip_trip_id)))

TripStatus(df) ==
    SetCol(df, "trip_status",
           LAMBDA r :
             [num |-> Cardinality({i \in OfTrip(df, r.Trip_trip_id) :
                                      df[i].TripState_passed_schedule}),
              den |-> r.total_sequence])

\* the stop sequences of the confirmed rows of the trip t
ConfirmedSequences(df, t) ==
    {df[i].StopTime_stop_sequence[1] :
        i \in {j \in OfTrip(df, t) :
                 /\ Confirmed(df[j])
                 /\ notnull(df[j].StopTime_stop_sequence)}}

\* the maximum of a group, NaN for a trip without a group
MaxOrNaN(S) == IF S = {} THEN NaN ELSE <<SetMax(S)>>

LastSequenceNumber(df) ==
    SetCol(df, "last_sequence_number",
           LAMBDA r : MaxOrNaN(ConfirmedSequences(df, r.Trip_trip_id)))

SequenceDiff(df) ==
    SetCol(df, "sequence_diff",
           LAMBDA r :
             IF notnull(r.StopTime_stop_sequence)
                /\ notnull(r.last_sequence_number)
             THEN <<r.StopTime_stop_sequence[1] - r.last_sequence_number[1]>>
             ELSE NaN)

\* the value of col at each trip's last observed stop, joined as newcol
JoinLast(df, col, newcol) == JoinOnTrip(df, AtLastSequence(df, col), newcol)

StationsScheduledTripTime(self, df) ==
    ApplyInto(df, "stations_scheduled_trip_time",
              LAMBDA r : notnull(r.last_observed_scheduled_dep_time),
              LAMBDA r : ScheduleVsLast(self, r))

_trip_level(self, df0) ==
    StationsScheduledTripTime(self,
      JoinLast(
        JoinLast(
          SequenceDiff(LastSequenceNumber(TripStatus(TotalSequence(df0)))),
          "TripState_observed_delay", "last_observed_delay"),
        "StopTime_departure_time", "last_observed_scheduled_dep_time"))

\* the trailing window of _line_level, in seconds
secs == 600

\* False <= 0 holds and True <= 0 does not
NotPositive(b) == (IF b THEN 1 ELSE 0) <= 0

\* d > -secs, False for NaN
AboveWindowStart(d) == notnull(d) /\ d[1] > -secs

\* the boolean pandas makes of the float operand of &: NaN and 0 are False
AsBool(d) == notnull(d) /\ d[1] # 0

\* (diff > -secs) & diff <= 0 as Python reads it: & binds tighter than <=,
\* so the mask is ((diff > -secs) & diff) <= 0
WindowMask(r) ==
    NotPositive(
        /\ AboveWindowStart(r.TripState_real_passage_vs_prediction_time_diff)
        /\ AsBool(r.TripState_real_passage_vs_prediction_time_diff))

RECURSIVE Insert(_, _)
Insert(x, s) ==
    IF s = <<>> THEN <<x>>
    ELSE IF x <= Head(s) THEN <<x>> \o s
    ELSE <<Head(s)>> \o Insert(x, Tail(s))

RECURSIVE Sorted(_)
Sorted(s) == IF s = <<>> THEN <<>> ELSE Insert(Head(s), Sorted(Tail(s)))

\* the mean of the two middle values, as a fraction num/den
HalfOf(two) ==
    IF two % 2 = 0 THEN [num |-> two \div 2, den |-> 1]
    ELSE [num |-> two, den |-> 2]

\* the median of the sorted values v (not empty): the middle value, or the
\* mean of the two middle values
MiddleOf(v, n) ==
    IF n % 2 = 1 THEN [num |-> v[(n + 1) \div 2], den |-> 1]
    ELSE HalfOf(v[n \div 2] + v[(n \div 2) + 1])

\* Series.median of the values s
Median(s) == MiddleOf(Sorted(s), Len(s))

MedianOrZero(sel) ==
    IF sel = <<>> THEN <<[num |-> 0, den |-> 1]>>
    ELSE <<Median(Table(Len(sel), LAMBDA j : sel[j].TripState_observed_delay[1]))>>

\* the median of the observed delays of the rows sel, NaN when none
MedianOrNaN(sel) ==
    IF sel = <<>> THEN NaN
    ELSE <<Median(Table(Len(sel), LAMBDA j : sel[j].TripState_observed_delay[1]))>>

\* groupby(...).TripState_observed_delay.median() looked up for one group:
\* the median of the group's non-null delays, NaN when it has none
MedianDelay(df, inGroup(_)) ==
    MedianOrNaN(SelectSeq(df, LAMBDA r :
                    inGroup(r) /\ notnull(r.TripState_observed_delay)))

\* groupby("Route_route_short_name")["Trip_trip_id"].count() over the rows
\* of rolling trips, looked up for one line
RollingCount(df, line) ==
    IF \E i \in 1..Len(df) :
          isRolling(df[i]) /\ df[i].Route_route_short_name = line
    THEN <<Cardinality({i \in 1..Len(df) :
                          /\ isRolling(df[i])
                          /\ df[i].Route_route_short_name = line
                          /\ notnull(df[i].Trip_trip_id)})>>
    ELSE NaN

\* the steps of _line_level, each on the table of the step before it

LineMedianDelay(df) ==
    SetCol(df, "line_median_delay",
           LAMBDA r : MedianDelay(df, LAMBDA x :
               /\ WindowMask(x)
               /\ x.Route_route_short_name = r.Route_route_short_name))

LineStationMedianDelay(df) ==
    SetCol(df, "line_station_median_delay",
           LAMBDA r : MedianDelay(df, LAMBDA x :
               /\ WindowMask(x)
               /\ x.Route_route_short_name = r.Route_route_short_name
               /\ x.Stop_stop_id = r.Stop_stop_id))

RollingTripsOnLine(df) ==
    SetCol(df, "rolling_trips_on_line",
           LAMBDA r : RollingCount(df, r.Route_route_short_name))

_line_level(df0) ==
    RollingTripsOnLine(LineStationMedianDelay(LineMedianDelay(df0)))

\* the builder object: how the construction ended, and its fields
Object(self, status, df) ==
    [status |-> status, datetime |-> self.datetime, day |-> self.day,
     time |-> self.time, df |-> df]

\* the end of __init__ : _line_level unless _trip_level raised; inplace is
\* the table as the steps that assign in place left it (self.df is the
\* caller's table until _trip_level rebinds it)
AfterTripLevel(self, inplace, trip) ==
    IF trip.status # "ok"
    THEN [self |-> Object(self, trip.status, trip.df), inplace |-> inplace]
    ELSE [self |-> Object(self, "built", _line_level(trip.df)),
          inplace |-> inplace]

AfterTripState(self, state) ==
    IF state.status # "ok"
    THEN [self |-> Object(self, state.status, state.df), inplace |-> state.df]
    ELSE AfterTripLevel(self, state.df, _trip_level(self, state.df))

\* __init__ once day, time and datetime are set
Compute(self, rows) ==
    IF self.status # "ok"
    THEN [self |-> Object(self, self.status, rows), inplace |-> rows]
    ELSE AfterTripState(self,
                        _compute_trip_state(self, _clean_initial_df(rows)))

\* DayMatrixBuilder.__init__ on the table rows: the builder, and the table
\* of the caller as the build left it
DayMatrixBuilder(day, time, rows, clock) ==
    Compute(InitDayTime(day, time, clock), rows)

\* the columns get_predictable keeps
filtered_cols ==
    {"Trip_trip_id", "Stop_stop_id", "Route_route_short_name", "Stop_stop_name",
     "last_observed_delay", "line_station_median_delay", "line_median_delay",
     "sequence_diff", "stations_scheduled_trip_time", "rolling_trips_on_line",
     "StopTime_departure_time", "RealTime_expected_passage_time",
     "RealTime_data_freshness", "TripState_passed_realtime",
     "TripState_observed_delay", "TripState_expected_delay"}

\* the basic conditions without the one on passed_realtime
PredictableWhateverRealtime(r) ==
    /\ r.trip_status.num < r.trip_status.den
    /\ r.trip_status.num > 0
    /\ r.TripState_passed_schedule # TRUE

\* the basic conditions of get_predictable
Predictable(r) ==
    /\ r.trip_status.num < r.trip_status.den
    /\ r.trip_status.num > 0
    /\ r.TripState_passed_schedule # TRUE
    /\ ~isTrue(r.TripState_passed_realtime)

\* the strict conditions of get_predictable
StrictlyPredictable(r) ==
    /\ notnull(r.last_observed_delay)
    /\ notnull(r.line_station_median_delay)

get_predictable(df, strict, col_filter) ==
    LET basic == SelectSeq(df, Predictable)
        kept == IF strict THEN SelectSeq(basic, StrictlyPredictable) ELSE basic
    IN  IF col_filter
        THEN Table(Len(kept), LAMBDA j : [c \in filtered_cols |-> kept[j][c]])
        ELSE kept

-----------------------------------------------------------------------------
(* Specification of the matrix builder: one build from a bounded table,    *)
(* then get_predictable on the table built                                 *)

\* rows of the generated tables: 1 .. MaxRows
MaxRows == 3

Txt(str) == <<str>>

\* who each row of a generated table is: trip, line, station, position
Stop(trip, line, station, seq) ==
    [Trip_trip_id |-> Txt(trip), Route_route_short_name |-> Txt(line),
     Stop_stop_id |-> Txt(station), Stop_stop_name |-> Txt(station),
     StopTime_stop_sequence |-> PyStr(seq)]

\* two trips of one line that share their stations, and two trips of two
\* lines; sequence numbers are unique within a trip
Layouts ==
    {<<Stop("A", "C", "S1", 1), Stop("A", "C", "S2", 2),
       Stop("B", "C", "S1", 1), Stop("B", "C", "S2", 2)>>,
     <<Stop("A", "C", "S1", 1), Stop("A", "C", "S2", 2),
       Stop("B", "D", "S1", 1)>>}

\* the service day and the observation instant of the generated tables
DayT == DateText(Date(2025, 1, 1))
TimeT == ExtTime(12, 0, 0)

\* scheduled departures: 10 minutes before and after the observation
SchedMenu == {ExtTime(11, 50, 0), ExtTime(12, 10, 0)}

\* real-time passages: none, 1 minute before the observation, at the
\* observation, 1 minute after it
RtMenu == {Unknown, ExtTime(11, 59, 0), ExtTime(12, 0, 0), ExtTime(12, 1, 0)}

\* one flat record of the query layer: a scheduled stop merged with its
\* real-time observation, "Unknown" standing for each absent field
Record(who, rtDay, sched, rt) ==
    [Trip_trip_id |-> who.Trip_trip_id,
     Route_route_short_name |-> who.Route_route_short_name,
     Stop_stop_id |-> who.Stop_stop_id,
     Stop_stop_name |-> who.Stop_stop_name,
     StopTime_stop_sequence |-> who.StopTime_stop_sequence,
     StopTime_departure_time |-> sched,
     RealTime_expected_passage_day |-> IF rt = Unknown THEN Unknown ELSE rtDay,
     RealTime_expected_passage_time |-> rt,
     RealTime_data_freshness |-> IF rt = Unknown THEN Unknown ELSE Txt("fresh")]

GeneratedTables ==
    UNION {
      UNION {
        {Table(n, LAMBDA i : Record(layout[i], DayT, times[i][1], times[i][2])) :
            times \in [1..n -> SchedMenu \X RtMenu]}
        : n \in 1..(IF MaxRows < Len(layout) THEN MaxRows ELSE Len(layout))}
      : layout \in Layouts}

\* a trip of three stops: the first was scheduled 10 minutes before the
\* observation and passed 90 seconds late, the others are still to come and
\* have no real-time observation
ThreeStopTrip ==
    <<Record(Stop("A", "C", "S1", 1), DayT, ExtTime(11, 50, 0), ExtTime(11, 51, 30)),
      Record(Stop("A", "C", "S2", 2), DayT, ExtTime(12, 10, 0), Unknown),
      Record(Stop("A", "C", "S3", 3), DayT, ExtTime(12, 20, 0), Unknown)>>

\* a line with three passages in the last 10 minutes, 30, 45 and 600
\* seconds late, and one passage 15 minutes ago, 700 seconds late
FourPassages ==
    <<Record(Stop("A", "C", "S1", 1), DayT, ExtTime(11, 58, 30), ExtTime(11, 59, 0)),
      Record(Stop("A", "C", "S2", 2), DayT, ExtTime(11, 58, 15), ExtTime(11, 59, 0)),
      Record(Stop("B", "C", "S1", 1), DayT, ExtTime(11, 49, 0), ExtTime(11, 59, 0)),
      Record(Stop("B", "C", "S2", 2), DayT, ExtTime(11, 33, 20), ExtTime(11, 45, 0))>>

\* a rolling trip of four stops and a second trip: stop 1 is predictable
\* and its station has a passage at the observation, stop 3 is predictable
\* and its station has none, stop 4 has a passage at the observation
MixedTrip ==
    <<Record(Stop("A", "C", "S1", 1), DayT, ExtTime(11, 50, 0), ExtTime(11, 59, 0)),
      Record(Stop("A", "C", "S2", 2), DayT, ExtTime(12, 10, 0), ExtTime(12, 0, 0)),
      Record(Stop("A", "C", "S3", 3), DayT, ExtTime(11, 50, 0), Unknown),
      Record(Stop("A", "C", "S4", 4), DayT, ExtTime(11, 50, 0), ExtTime(12, 0, 0)),
      Record(Stop("B", "C", "S1", 1), DayT, ExtTime(11, 50, 0), ExtTime(12, 0, 0))>>

\* a trip that runs past midnight: stop 1 was due and seen before the
\* observation, stop 2 is scheduled at 23:50:00 with a passage at 23:51:00,
\* stop 3 is scheduled at 24:10:00 of the same service day
LateEvening ==
    <<Record(Stop("A", "C", "S1", 1), DayT, ExtTime(11, 50, 0), ExtTime(11, 55, 0)),
      Record(Stop("A", "C", "S2", 2), DayT, ExtTime(23, 50, 0), ExtTime(23, 51, 0)),
      Record(Stop("A", "C", "S3", 3), DayT, ExtTime(24, 10, 0), Unknown)>>

ScenarioTables == {ThreeStopTrip, FourPassages, MixedTrip, LateEvening}

\* the clock of a build that is given no time
NoonClock == At(Date(2025, 1, 1), 12, 0, 0)

InitMatrix ==
    /\ args = NoArgs
    /\ conv = NoConv
    /\ back = NoConv
    /\ input = IdleInput
    /\ mat = IdleMat
    /\ callerDf = <<>>
    /\ rdf = IdleRdf
    /\ now = NoonClock
    /\ batch = IdleBatch
    /\ files = NoFiles
    /\ gen = IdleGen
    /\ mongo = IdleMongo

othersMatrix == <<args, conv, back, now, batch, files, gen, mongo>>

\* DayMatrixBuilder(day, time, df=table): the table is the caller's
BuildFromDf ==
    /\ input = IdleInput
    /\ \E rows \in GeneratedTables \cup ScenarioTables :
           \E m \in {DayMatrixBuilder(DayT, TimeT, rows, now)} :
               /\ input' = [mode |-> "df", day |-> DayT, time |-> TimeT,
                            rows |-> rows]
               /\ mat' = m.self
               /\ callerDf' = m.inplace
    /\ UNCHANGED rdf
    /\ UNCHANGED othersMatrix

\* DayMatrixBuilder(day, time): the table is a copy of what the query layer
\* returned
BuildFromQuery ==
    /\ input = IdleInput
    /\ \E rows \in ScenarioTables, time \in {TimeT, None} :
           \E m \in {DayMatrixBuilder(DayT, time, rows, now)} :
               /\ input' = [mode |-> "query", day |-> DayT, time |-> time,
                            rows |-> rows]
               /\ mat' = m.self
    /\ UNCHANGED <<callerDf, rdf>>
    /\ UNCHANGED othersMatrix

\* mat.get_predictable(strict, col_filter)
GetPredictable ==
    /\ mat.status = "built"
    /\ rdf = IdleRdf
    /\ \E strict \in BOOLEAN, col_filter \in BOOLEAN :
        /\ rdf' = [status |-> "returned", strict |-> strict,
                   col_filter |-> col_filter,
                   rows |-> get_predictable(mat.df, strict, col_filter)]
    /\ UNCHANGED <<input, mat, callerDf>>
    /\ UNCHANGED othersMatrix

NextMatrix == BuildFromDf \/ BuildFromQuery \/ GetPredictable

SpecMatrix == InitMatrix /\ [][NextMatrix]_vars

-----------------------------------------------------------------------------
(* Specification of the batch export: save_day_matrices_as_csv over a      *)
(* range of days, one loop iteration per step, while the clock advances    *)

\* seconds the clock may advance during one export, in steps of ClockStep
MaxTicks == 3

ClockStep == 30

\* the days a range may start and end on
BatchDates == {Date(2025, 1, 1), Date(2025, 1, 2), Date(2025, 1, 3)}

\* the clock when the export is called: noon of 2025-01-02
BatchClock == At(Date(2025, 1, 2), 12, 0, 0)

\* dt + n seconds, for n below one minute
PlusSeconds(dt, n) ==
    LET total == SecondsOfDay(dt) + n
        day == IF total >= 86400 THEN PlusOneDay(dt) ELSE dt
        rest == total % 86400
    IN  [day EXCEPT !.H = rest \div 3600, !.M = (rest % 3600) \div 60,
                    !.S = rest % 60]

Before(a, b) == TotalSeconds(a, b) < 0

RECURSIVE date_range(_, _)
\* pd.date_range(start, end, freq="D"): every day from start to end, both
\* included; empty when start is after end
date_range(start, end) ==
    IF Before(end, start) THEN <<>>
    ELSE <<start>> \o date_range(PlusOneDay(start), end)

\* the dates of the range written as %Y%m%d
DaysOf(start, end) ==
    LET dti == date_range(start, end)
    IN  Table(Len(dti), LAMBDA i : strftime(dti[i], FmtDate))

\* what the query layer returns for a service day: a trip of two stops
\* scheduled at 11:50:00 and 12:10:00, seen at 11:59:00 and expected at
\* 12:01:00 on that day
stops_of_day(day) ==
    <<Record(Stop("A", "C", "S1", 1), day, ExtTime(11, 50, 0), ExtTime(11, 59, 0)),
      Record(Stop("A", "C", "S2", 2), day, ExtTime(12, 10, 0), ExtTime(12, 1, 0))>>

\* DayMatrixBuilder(day): no time is given, so the builder takes the clock
\* for its instant and its day, and queries the day it has taken
DayMatrixOfDay(day, clock) ==
    LET t == InitDayTime(day, None, clock)
    IN  DayMatrixBuilder(day, None, stops_of_day(t.day), clock).self

csv(day) == day \o <<".", "c", "s", "v">>

InitBatch ==
    /\ args = NoArgs
    /\ conv = NoConv
    /\ back = NoConv
    /\ input = IdleInput
    /\ mat = IdleMat
    /\ callerDf = <<>>
    /\ rdf = IdleRdf
    /\ now = BatchClock
    /\ batch = IdleBatch
    /\ files = NoFiles
    /\ gen = IdleGen
    /\ mongo = IdleMongo

othersBatch == <<args, conv, back, input, callerDf, rdf, gen, mongo>>

\* the call, up to the loop: the days of the range
StartBatch ==
    /\ batch = IdleBatch
    /\ \E start \in BatchDates, end \in BatchDates :
          \E days \in {DaysOf(start, end)} :
              batch' = [pc |-> IF days = <<>> THEN "done" ELSE "loop",
                        start |-> start, end |-> end, days |-> days]
    /\ UNCHANGED <<mat, now, files>>
    /\ UNCHANGED othersBatch

\* one iteration of the loop: build the matrix of the next day and write
\* it; an error of the build ends the call
SaveDay ==
    /\ batch # IdleBatch
    /\ batch.pc = "loop"
    /\ \E m \in {DayMatrixOfDay(Head(batch.days), now)} :
          /\ mat' = m
          /\ IF m.status = "built"
             THEN /\ files' = (csv(Head(batch.days)) :> [day |-> m.day, df |-> m.df])
                              @@ files
                  /\ batch' = [batch EXCEPT
                                 !.days = Tail(@),
                                 !.pc = IF Tail(batch.days) = <<>>
                                        THEN "done" ELSE "loop"]
             ELSE /\ files' = files
                  /\ batch' = [batch EXCEPT !.pc = "raised"]
    /\ UNCHANGED now
    /\ UNCHANGED othersBatch

\* time passes
Tick ==
    /\ TotalSeconds(now, BatchClock) < MaxTicks * ClockStep
    /\ now' = PlusSeconds(now, ClockStep)
    /\ UNCHANGED <<mat, batch, files>>
    /\ UNCHANGED othersBatch

NextBatch == StartBatch \/ SaveDay \/ Tick

SpecBatch == InitBatch /\ [][NextBatch]_vars

-----------------------------------------------------------------------------
(* Properties of the matrix builder                                        *)

Built == mat.status = "built"

\* the instant a is at or before the instant b
AtOrBefore(a, b) == TotalSeconds(b, a) >= 0

\* the scheduled departure of a row, read as extended time on the service day
ScheduledInstant(r) == FindDt(Special(mat.day, r.StopTime_departure_time)).dt

\* the real-time passage of a row that has one
RealTimeInstant(r) ==
    FindDt(Special(r.RealTime_expected_passage_day,
                   r.RealTime_expected_passage_time)).dt

\* the build acted on the table rows
BuiltFrom(rows) == input # IdleInput /\ input.rows = rows

\* C1: in every row of a built table, TripState_passed_schedule is true
\* exactly when the scheduled departure is at or before the observation
\* instant, and false exactly when it is strictly after it
C1_PassedScheduleWhenDue ==
    Built =>
        \A i \in 1..Len(mat.df) :
            mat.df[i].TripState_passed_schedule
                = AtOrBefore(ScheduledInstant(mat.df[i]), mat.datetime)

\* C2: a row with a real-time observation has TripState_passed_realtime
\* true exactly when the passage is at or before the observation instant and
\* false otherwise; a row without one has it null
C2_PassedRealtimeWhenSeen ==
    Built =>
        \A i \in 1..Len(mat.df) :
            LET r == mat.df[i]
            IN  IF hasRealTime(r)
                THEN r.TripState_passed_realtime
                         = <<AtOrBefore(RealTimeInstant(r), mat.datetime)>>
                ELSE r.TripState_passed_realtime = NaN

\* C3: the build of the three-stop trip (stop 1 scheduled before the
\* observation and seen 90 seconds late, stops 2 and 3 still to come) gives
\* a table with trip_status 1/3, last_sequence_number 1 and
\* last_observed_delay 90 on every row, and sequence_diff 1 and 2 on stops
\* 2 and 3
C3_ThreeStopTripScenario ==
    BuiltFrom(ThreeStopTrip) =>
        /\ Built
        /\ Len(mat.df) = 3
        /\ \A i \in 1..Len(mat.df) :
              LET r == mat.df[i]
              IN  /\ r.trip_status.num * 3 = r.trip_status.den
                  /\ r.last_sequence_number = <<1>>
                  /\ r.last_observed_delay = <<90>>
                  /\ r.StopTime_stop_sequence = <<2>> => r.sequence_diff = <<1>>
                  /\ r.StopTime_stop_sequence = <<3>> => r.sequence_diff = <<2>>

\* the real-time-vs-observation diff of the row lies in (-W, 0], W = secs
InWindow(r) ==
    LET d == r.TripState_real_passage_vs_prediction_time_diff
    IN  notnull(d) /\ -secs < d[1] /\ d[1] <= 0

\* C4: line_median_delay of a line is the median of the observed delays of
\* exactly the rows of the line whose diff lies in (-600, 0]; the line with
\* three passages in the window, 30, 45 and 600 seconds late, and one
\* outside it, 700 seconds late, gets 45
C4_LineMedianOverWindow ==
    /\ Built =>
          \A i \in 1..Len(mat.df) :
              mat.df[i].line_median_delay
                  = MedianDelay(mat.df, LAMBDA x :
                        /\ InWindow(x)
                        /\ x.Route_route_short_name
                               = mat.df[i].Route_route_short_name)
    /\ BuiltFrom(FourPassages) =>
          /\ Built
          /\ \A i \in 1..Len(mat.df) :
                mat.df[i].line_median_delay = <<[num |-> 45, den |-> 1]>>

\* the trip ids of the rolling trips of a line
RollingTripsOf(line) ==
    {mat.df[j].Trip_trip_id :
        j \in {k \in 1..Len(mat.df) :
                 /\ isRolling(mat.df[k])
                 /\ mat.df[k].Route_route_short_name = line}}

\* C5: on every row of a line that has rolling trips, rolling_trips_on_line
\* is the number of distinct rolling trip ids of the line
C5_RollingTripsCountedOnce ==
    Built =>
        \A i \in 1..Len(mat.df) :
            LET trips == RollingTripsOf(mat.df[i].Route_route_short_name)
            IN  trips # {} =>
                    mat.df[i].rolling_trips_on_line = <<Cardinality(trips)>>

\* C6: when save_day_matrices_as_csv(start, end) has returned, every day d
\* of the range has a file named by d that holds a matrix whose service day
\* is d, and no two files hold a matrix of the same service day
C6_OneMatrixPerDay ==
    (batch # IdleBatch /\ batch.pc = "done") =>
        LET days == DaysOf(batch.start, batch.end)
        IN  /\ \A i \in 1..Len(days) :
                  /\ csv(days[i]) \in DOMAIN files
                  /\ files[csv(days[i])].day = days[i]
            /\ \A f \in DOMAIN files, g \in DOMAIN files :
                  f # g => files[f].day # files[g].day

\* the rows a predictable-rows query should return
Wanted(r, strict) ==
    /\ 0 < r.trip_status.num
    /\ r.trip_status.num < r.trip_status.den
    /\ r.TripState_passed_schedule # TRUE
    /\ r.TripState_passed_realtime # <<TRUE>>
    /\ strict => /\ r.last_observed_delay # NaN
                 /\ r.line_station_median_delay # NaN

\* C7: get_predictable(strict=False) returns exactly the rows of rolling
\* trips whose passed_schedule is not true and whose passed_realtime is not
\* true (false or unknown); get_predictable(strict=True) returns exactly
\* those of them whose last_observed_delay and line_station_median_delay
\* are both non-null; the rows come in the order of the table, whole or
\* reduced to the filtered columns
C7_PredictableRows ==
    rdf.status = "returned" =>
        LET want == SelectSeq(mat.df, LAMBDA r : Wanted(r, rdf.strict))
        IN  /\ Len(rdf.rows) = Len(want)
            /\ \A j \in 1..Len(want) :
                  \A c \in DOMAIN rdf.rows[j] : rdf.rows[j][c] = want[j][c]
            /\ ~rdf.col_filter => rdf.rows = want

\* a strict query returned rows, left out a row the non-strict query
\* returns, rows with false and with unknown passed_realtime qualified, and
\* a row of a rolling trip was left out for its true passed_realtime
C7_Witness ==
    /\ rdf.status = "returned"
    /\ rdf.strict
    /\ rdf.rows # <<>>
    /\ \E i \in 1..Len(mat.df) :
          Wanted(mat.df[i], FALSE) /\ ~Wanted(mat.df[i], TRUE)
    /\ \E i \in 1..Len(mat.df) :
          /\ Wanted(mat.df[i], FALSE)
          /\ mat.df[i].TripState_passed_realtime = <<FALSE>>
    /\ \E i \in 1..Len(mat.df) :
          /\ Wanted(mat.df[i], FALSE)
          /\ mat.df[i].TripState_passed_realtime = NaN
    /\ \E i \in 1..Len(mat.df) :
          /\ isRolling(mat.df[i])
          /\ mat.df[i].TripState_passed_schedule # TRUE
          /\ mat.df[i].TripState_passed_realtime = <<TRUE>>

\* the real-time passage of the row minus its scheduled departure, in seconds
PassageMinusSchedule(r) ==
    TotalSeconds(RealTimeInstant(r), ScheduledInstant(r))

\* C12: every row of a built table has at most one of
\* TripState_observed_delay and TripState_expected_delay populated: the
\* observed delay only when TripState_passed_realtime is true, the expected
\* delay only when the row has a real-time observation and
\* TripState_passed_realtime is false, both null without a real-time
\* observation; the one populated is the real-time instant minus the
\* scheduled instant in seconds
C12_OneDelayPerRow ==
    Built =>
        \A i \in 1..Len(mat.df) :
            LET r == mat.df[i]
            IN  /\ ~(notnull(r.TripState_observed_delay)
                       /\ notnull(r.TripState_expected_delay))
                /\ notnull(r.TripState_observed_delay)
                      => /\ r.TripState_passed_realtime = <<TRUE>>
                         /\ r.TripState_observed_delay
                                = <<PassageMinusSchedule(r)>>
                /\ notnull(r.TripState_expected_delay)
                      => /\ hasRealTime(r)
                         /\ r.TripState_passed_realtime = <<FALSE>>
                         /\ r.TripState_expected_delay
                                = <<PassageMinusSchedule(r)>>
                /\ ~hasRealTime(r)
                      => /\ r.TripState_observed_delay = NaN
                         /\ r.TripState_expected_delay = NaN
                /\ hasRealTime(r)
                      => \/ notnull(r.TripState_observed_delay)
                         \/ notnull(r.TripState_expected_delay)

\* a built table with a row that has an observed delay, a row that has an
\* expected delay and a row without real-time observation; one delay is
\* not zero
C12_Witness ==
    /\ Built
    /\ \E i \in 1..Len(mat.df) :
          /\ notnull(mat.df[i].TripState_observed_delay)
          /\ mat.df[i].TripState_observed_delay # <<0>>
    /\ \E i \in 1..Len(mat.df) : notnull(mat.df[i].TripState_expected_delay)
    /\ \E i \in 1..Len(mat.df) : ~hasRealTime(mat.df[i])

\* the indexes of the rows of the built table that are of the trip of r
TripRows(r) == OfTrip(mat.df, r.Trip_trip_id)

\* those of them whose TripState_passed_schedule is true
PassedRows(r) == {j \in TripRows(r) : mat.df[j].TripState_passed_schedule}

\* C13: in a built table, total_sequence of a trip is the number of rows of
\* the trip, trip_status is the number of rows of the trip with
\* TripState_passed_schedule true divided by total_sequence, it lies in
\* [0, 1], it is 1 exactly when every row of the trip has passed_schedule
\* true and 0 exactly when none has
C13_TripStatusIsProportion ==
    Built =>
        \A i \in 1..Len(mat.df) :
            LET r == mat.df[i]
            IN  /\ r.total_sequence = Cardinality(TripRows(r))
                /\ r.trip_status.den = r.total_sequence
                /\ r.trip_status.den > 0
                /\ r.trip_status.num = Cardinality(PassedRows(r))
                /\ 0 <= r.trip_status.num
                /\ r.trip_status.num <= r.trip_status.den
                /\ (r.trip_status.num = r.trip_status.den)
                       <=> (PassedRows(r) = TripRows(r))
                /\ (r.trip_status.num = 0) <=> (PassedRows(r) = {})

\* a built table with a trip of two rows of which one has passed_schedule
\* true, and a trip of one row with status 0 or 1
C13_Witness ==
    /\ Built
    /\ \E i \in 1..Len(mat.df) :
          /\ mat.df[i].total_sequence = 2
          /\ mat.df[i].trip_status.num = 1
    /\ \E i \in 1..Len(mat.df) :
          /\ mat.df[i].total_sequence = 1
          /\ mat.df[i].trip_status.num \in {0, 1}

\* the sequence numbers of the rows of the trip of r whose
\* TripState_passed_realtime is true
SeenSequences(r) ==
    {mat.df[j].StopTime_stop_sequence[1] :
        j \in {k \in TripRows(r) :
                 mat.df[k].TripState_passed_realtime = <<TRUE>>}}

\* the trip of r is rolling: 0 < trip_status < 1
Rolling(r) ==
    0 < r.trip_status.num /\ r.trip_status.num < r.trip_status.den

\* C14: last_sequence_number of a trip is non-null only when the trip is
\* rolling and has a row with TripState_passed_realtime true, and is then the
\* maximum sequence number among those rows (rows with unknown or false
\* passed_realtime do not count); a trip that is not rolling, or rolling
\* without such a row, has last_sequence_number null, and sequence_diff null
\* on all its rows
C14_LastSequenceNumber ==
    Built =>
        \A i \in 1..Len(mat.df) :
            LET r == mat.df[i]
            IN  IF Rolling(r) /\ SeenSequences(r) # {}
                THEN r.last_sequence_number = <<SetMax(SeenSequences(r))>>
                ELSE /\ r.last_sequence_number = NaN
                     /\ r.sequence_diff = NaN

\* a built table where a rolling trip has last_sequence_number 1 although
\* its stop 2 has a real-time observation that is not passed, and where a
\* trip that is not rolling has a row with passed_realtime true and a null
\* last_sequence_number
C14_Witness ==
    /\ Built
    /\ \E i \in 1..Len(mat.df) :
          /\ mat.df[i].last_sequence_number = <<1>>
          /\ mat.df[i].StopTime_stop_sequence = <<2>>
          /\ mat.df[i].TripState_passed_realtime = <<FALSE>>
    /\ \E i \in 1..Len(mat.df) :
          /\ ~Rolling(mat.df[i])
          /\ mat.df[i].TripState_passed_realtime = <<TRUE>>
          /\ mat.df[i].last_sequence_number = NaN

\* the rows of the trip of r that are at its last_sequence_number
LastRows(r) ==
    {j \in TripRows(r) :
        mat.df[j].StopTime_stop_sequence = r.last_sequence_number}

\* the built table keeps the records of the input, one row each, in order
OneRowPerRecord ==
    /\ Len(mat.df) = Len(input.rows)
    /\ \A i \in 1..Len(mat.df) :
          /\ mat.df[i].Trip_trip_id = input.rows[i].Trip_trip_id
          /\ mat.df[i].Stop_stop_id = input.rows[i].Stop_stop_id
          /\ mat.df[i].StopTime_departure_time
                 = input.rows[i].StopTime_departure_time

\* C15: for an input whose sequence numbers are unique within each trip,
\* every trip with a non-null last_sequence_number has exactly one row at
\* that sequence number, every row of the trip carries the observed delay
\* of that row as last_observed_delay and its scheduled departure as
\* last_observed_scheduled_dep_time, and the built table has exactly one row
\* per input record
C15_LastObservedFromOneRow ==
    Built =>
        /\ OneRowPerRecord
        /\ \A i \in 1..Len(mat.df) :
              LET r == mat.df[i]
              IN  notnull(r.last_sequence_number) =>
                      /\ Cardinality(LastRows(r)) = 1
                      /\ \A j \in LastRows(r) :
                            /\ r.last_observed_delay
                                   = mat.df[j].TripState_observed_delay
                            /\ r.last_observed_scheduled_dep_time
                                   = mat.df[j].StopTime_departure_time

\* a built table of at least three rows where a row that is not at the last
\* observed stop of its trip carries the observed delay and the scheduled
\* departure of the row that is, both other than its own
C15_Witness ==
    /\ Built
    /\ Len(mat.df) >= 3
    /\ \E i \in 1..Len(mat.df) :
          /\ notnull(mat.df[i].last_sequence_number)
          /\ i \notin LastRows(mat.df[i])
          /\ notnull(mat.df[i].last_observed_delay)
          /\ mat.df[i].last_observed_delay # mat.df[i].TripState_observed_delay
          /\ mat.df[i].last_observed_scheduled_dep_time
                 # mat.df[i].StopTime_departure_time

\* the row x is of the line of r, and of its station too
SameLine(x, r) == x.Route_route_short_name = r.Route_route_short_name
SameLineStation(x, r) == SameLine(x, r) /\ x.Stop_stop_id = r.Stop_stop_id

\* the row has an observed delay and its passage lies in the window
Qualifies(x) == InWindow(x) /\ notnull(x.TripState_observed_delay)

Zero == <<[num |-> 0, den |-> 1]>>

\* C16: a row whose grouping key has no qualifying row has null, not zero,
\* in the broadcast aggregate: rolling_trips_on_line on a line without
\* rolling trip, line_median_delay on a line without observed delay in the
\* window, line_station_median_delay on a (line, station) without one; a 0
\* is the aggregate of a non-empty set that is 0
C16_NullForEmptyGroups ==
    Built =>
        \A i \in 1..Len(mat.df) :
            LET r == mat.df[i]
                onLine == SelectSeq(mat.df, LAMBDA x :
                              Qualifies(x) /\ SameLine(x, r))
                atStation == SelectSeq(mat.df, LAMBDA x :
                              Qualifies(x) /\ SameLineStation(x, r))
            IN  /\ RollingTripsOf(r.Route_route_short_name) = {}
                      => r.rolling_trips_on_line = NaN
                /\ r.rolling_trips_on_line # <<0>>
                /\ onLine = <<>> => r.line_median_delay = NaN
                /\ atStation = <<>> => r.line_station_median_delay = NaN
                /\ r.line_median_delay = Zero
                      => onLine # <<>> /\ MedianOrNaN(onLine) = Zero
                /\ r.line_station_median_delay = Zero
                      => atStation # <<>> /\ MedianOrNaN(atStation) = Zero

\* a built table with a line without rolling trip and without observed
\* delay in the window, whose row has both aggregates null, and a line whose
\* median delay is 0 over delays that are not 0, with a station whose median
\* is not 0
C16_Witness ==
    /\ Built
    /\ \E i \in 1..Len(mat.df) :
          /\ mat.df[i].rolling_trips_on_line = NaN
          /\ mat.df[i].line_median_delay = NaN
          /\ mat.df[i].line_station_median_delay = NaN
    /\ \E i \in 1..Len(mat.df) :
          /\ mat.df[i].line_median_delay = Zero
          /\ notnull(mat.df[i].line_station_median_delay)
          /\ mat.df[i].line_station_median_delay # Zero
          /\ notnull(mat.df[i].rolling_trips_on_line)

\* C17: on every row of a trip that has a last confirmed stop,
\* stations_scheduled_trip_time is the scheduled departure of the row minus
\* the scheduled departure of that stop, in seconds, both read as extended
\* times on the service day: a last confirmed stop at 23:50:00 and a row at
\* 24:10:00 give 1200, the last confirmed row itself gives 0; on every row
\* of a trip without confirmed stop it is null
C17_ScheduledTripTime ==
    /\ Built =>
          \A i \in 1..Len(mat.df) :
              LET r == mat.df[i]
              IN  IF notnull(r.last_sequence_number)
                  THEN \A j \in LastRows(r) :
                          r.stations_scheduled_trip_time
                              = <<TotalSeconds(ScheduledInstant(r),
                                               ScheduledInstant(mat.df[j]))>>
                  ELSE r.stations_scheduled_trip_time = NaN
    /\ BuiltFrom(LateEvening) =>
          /\ Built
          /\ \A i \in 1..Len(mat.df) :
                LET r == mat.df[i]
                IN  /\ r.StopTime_stop_sequence = <<2>>
                          => r.stations_scheduled_trip_time = <<0>>
                    /\ r.StopTime_stop_sequence = <<3>>
                          => r.stations_scheduled_trip_time = <<1200>>

\* the trip past midnight was built, its last confirmed stop is stop 2, and
\* its stop 3 at 24:10:00 has a scheduled trip time
C17_Witness ==
    /\ BuiltFrom(LateEvening)
    /\ Built
    /\ \E i \in 1..Len(mat.df) :
          /\ mat.df[i].StopTime_stop_sequence = <<3>>
          /\ mat.df[i].last_sequence_number = <<2>>
          /\ notnull(mat.df[i].stations_scheduled_trip_time)

\* C18: a build from a table of the caller,
\* DayMatrixBuilder(day, time, df=table), leaves that table as it was: when
\* the build has ended, the caller's table is the table given
C18_CallerTableUnchanged ==
    (Built /\ input.mode = "df") => callerDf = input.rows

-----------------------------------------------------------------------------
(* utils_misc.chunks                                                       *)

MaxLen == 4
MaxN == 4

\* l[a:b] of Python: the elements at the positions a .. b-1, counted from 0,
\* that exist
Slice(l, a, b) == SubSeq(l, a + 1, IF b < Len(l) THEN b ELSE Len(l))

\* the lists given to chunks
Elements == {"x", "y"}
Lists == UNION {[1..k -> Elements] : k \in 0..MaxLen}

InitChunks ==
    /\ args = NoArgs
    /\ conv = NoConv
    /\ back = NoConv
    /\ input = IdleInput
    /\ mat = IdleMat
    /\ callerDf = <<>>
    /\ rdf = IdleRdf
    /\ now = NoonClock
    /\ batch = IdleBatch
    /\ files = NoFiles
    /\ gen = IdleGen
    /\ mongo = IdleMongo

othersChunks ==
    <<args, conv, back, input, mat, callerDf, rdf, now, batch, files, mongo>>

\* g = chunks(l, n): the generator is created, no line of the body has run
ChunksCall ==
    /\ gen = IdleGen
    /\ \E l \in Lists, n \in 0..MaxN :
          gen' = [pc |-> "created", l |-> l \o <<>>, n |-> n, i |-> 0,
                  out |-> <<>>]
    /\ UNCHANGED othersChunks

\* next(g) while range(0, len(l), n) has a value i: yield l[i:i + n]
ChunksYield ==
    /\ gen.pc \in {"created", "suspended"}
    /\ gen.n # 0
    /\ gen.i < Len(gen.l)
    /\ gen' = [gen EXCEPT !.pc = "suspended",
                           !.out = Append(@, Slice(gen.l, gen.i, gen.i + gen.n)),
                           !.i = @ + gen.n]
    /\ UNCHANGED othersChunks

\* next(g) when the range is used up: StopIteration; when n is 0 the range
\* cannot be made: ValueError
ChunksStop ==
    /\ gen.pc \in {"created", "suspended"}
    /\ \/ gen.n = 0 /\ gen' = [gen EXCEPT !.pc = "ValueError"]
       \/ gen.n # 0 /\ gen.i >= Len(gen.l) /\ gen' = [gen EXCEPT !.pc = "exhausted"]
    /\ UNCHANGED othersChunks

NextChunks == ChunksCall \/ ChunksYield \/ ChunksStop

SpecChunks == InitChunks /\ [][NextChunks]_vars

\* C19: chunks(l, n) divides l into n lists of nearly the same size: for
\* every list l and n >= 1 it yields exactly n chunks, their lengths differ
\* by at most one, and their concatenation in order is l
C19_NChunksOfNearlySameSize ==
    (gen.pc = "exhausted" /\ gen.n >= 1) =>
        /\ Len(gen.out) = gen.n
        /\ \A a \in 1..Len(gen.out), b \in 1..Len(gen.out) :
              Len(gen.out[a]) - Len(gen.out[b]) <= 1
        /\ Flatten(gen.out) = gen.l

-----------------------------------------------------------------------------
(* utils_mongo.mongo_async_upsert_items                                    *)

MaxItems == 2

\* the items given: documents with the fields id and v
Items == [id : {1, 2}, v : {"a", "b"}]
ItemLists == UNION {[1..k -> Items] : k \in 0..MaxItems}

\* the index fields given
IndexFieldsMenu == {<<"id">>, <<"id", "v">>}

\* the fields named in a list of index fields
FieldsOf(index_fields) == {index_fields[k] : k \in 1..Len(index_fields)}

\* m_filter[index_field] = item_to_upsert[index_field], for each index field
mongo_get_replace_filter(item_to_upsert, index_fields) ==
    [f \in FieldsOf(index_fields) |-> item_to_upsert[f]]

\* the document d matches the filter
Matches(d, m_filter) == \A f \in DOMAIN m_filter : d[f] = m_filter[f]

\* asyncio.ensure_future(do_upsert(item_to_upsert, m_filter)): a task that
\* has not run yet
NewTask(item_to_upsert, m_filter) ==
    [state |-> "scheduled", item |-> item_to_upsert, filter |-> m_filter,
     calls |-> <<>>, result |-> "pending", raised |-> FALSE]

\* asy_collection.replace_one(m_filter, item_to_upsert, upsert=True)
ReplaceOne(t) ==
    [op |-> "replace_one", filter |-> t.filter, replacement |-> t.item,
     upsert |-> TRUE]

\* do_upsert runs off its end: the coroutine returns None
Returned(t) == [t EXCEPT !.state = "done", !.result = "None"]

ExceptNothing(t) == [t EXCEPT !.state = "done", !.raised = TRUE]

\* except Exception as e: logger.error(...), then the coroutine returns None
Except(t) == Returned(t)

\* every task has ended
AllDone(tasks) == \A i \in 1..Len(tasks) : tasks[i].state = "done"

\* a task ended with an exception
SomeRaised(tasks) == \E i \in 1..Len(tasks) : tasks[i].raised

InitMongo ==
    /\ args = NoArgs
    /\ conv = NoConv
    /\ back = NoConv
    /\ input = IdleInput
    /\ mat = IdleMat
    /\ callerDf = <<>>
    /\ rdf = IdleRdf
    /\ now = NoonClock
    /\ batch = IdleBatch
    /\ files = NoFiles
    /\ gen = IdleGen
    /\ mongo = IdleMongo

othersMongo ==
    <<args, conv, back, input, mat, callerDf, rdf, now, batch, files, gen>>

\* mongo_async_upsert_items(collection, item_list, index_fields) up to the
\* await of run: the filter and the task of every item, then gather
UpsertCall ==
    /\ mongo = IdleMongo
    /\ \E item_list \in ItemLists, index_fields \in IndexFieldsMenu :
          mongo' = [pc |-> "gathering",
                    item_list |-> item_list \o <<>>,
                    index_fields |-> index_fields,
                    tasks |-> [i \in 1..Len(item_list) |->
                                 NewTask(item_list[i],
                                         mongo_get_replace_filter(
                                             item_list[i], index_fields))]
                              \o <<>>,
                    docs |-> {},
                    log |-> <<>>,
                    responses |-> <<>>]
    /\ UNCHANGED othersMongo

\* the task i runs do_upsert up to its await: replace_one is issued; the
\* driver hands the operations to its threads, so they reach the collection
\* in any order
UpsertStart ==
    /\ mongo.pc = "gathering"
    /\ \E i \in 1..Len(mongo.tasks) :
          /\ mongo.tasks[i].state = "scheduled"
          /\ mongo' = [mongo EXCEPT
                          !.tasks[i].state = "awaiting",
                          !.tasks[i].calls = Append(@, ReplaceOne(mongo.tasks[i])),
                          !.log = Append(@, <<"replace_one", i>>)]
    /\ UNCHANGED othersMongo

\* the collection after a replace_one with upsert: a matching document is
\* replaced, or the item is inserted
Upserted(docs, t) ==
    LET found == {d \in docs : Matches(d, t.filter)}
    IN  IF found = {} THEN {docs \cup {t.item}}
        ELSE {(docs \ {d}) \cup {t.item} : d \in found}

\* the replace_one of task i returns its result, acknowledged or not:
\* logger.debug("Item inserted"), logger.error when not acknowledged, and
\* the task ends
UpsertDone ==
    /\ mongo.pc = "gathering"
    /\ \E i \in 1..Len(mongo.tasks) :
          /\ mongo.tasks[i].state = "awaiting"
          /\ \E acknowledged \in BOOLEAN,
                docs \in Upserted(mongo.docs, mongo.tasks[i]) :
                mongo' = [mongo EXCEPT
                            !.tasks[i] = Returned(@),
                            !.docs = docs,
                            !.log = Append(@, <<IF acknowledged THEN "inserted"
                                                ELSE "not inserted", i>>)]
    /\ UNCHANGED othersMongo

\* the replace_one of task i raises: the except clause of do_upsert
UpsertFail ==
    /\ mongo.pc = "gathering"
    /\ \E i \in 1..Len(mongo.tasks) :
          /\ mongo.tasks[i].state = "awaiting"
          /\ mongo' = [mongo EXCEPT
                          !.tasks[i] = Except(@),
                          !.log = Append(@, <<"error", i>>)]
    /\ UNCHANGED othersMongo

\* asyncio.gather(*tasks) ends when every task has ended, with their
\* results in the order of the tasks, or as soon as a task has ended with an
\* exception, with that exception; run_until_complete then returns
\* future.result() or raises
UpsertReturn ==
    /\ mongo.pc = "gathering"
    /\ AllDone(mongo.tasks) \/ SomeRaised(mongo.tasks)
    /\ mongo' = IF SomeRaised(mongo.tasks)
                 THEN [mongo EXCEPT !.pc = "raised"]
                 ELSE [mongo EXCEPT
                         !.pc = "returned",
                         !.responses = [i \in 1..Len(mongo.tasks) |->
                                           mongo.tasks[i].result] \o <<>>]
    /\ UNCHANGED othersMongo

NextMongo ==
    UpsertCall \/ UpsertStart \/ UpsertDone \/ UpsertFail \/ UpsertReturn

SpecMongo == InitMongo /\ [][NextMongo]_vars

\* the replace_one operations issued for the item at position i
IssuedFor(i) == mongo.tasks[i].calls

\* the operation is a replace_one with upsert whose filter maps each index
\* field to the value the item has for it
UpsertOf(call, item) ==
    /\ call.op = "replace_one"
    /\ call.upsert
    /\ call.replacement = item
    /\ DOMAIN call.filter = FieldsOf(mongo.index_fields)
    /\ \A f \in FieldsOf(mongo.index_fields) : call.filter[f] = item[f]

\* the events of the log about the task i
EventsOf(i) == SelectSeq(mongo.log, LAMBDA e : e[2] = i)

\* C20: mongo_async_upsert_items issues for every item of item_list (each
\* having the index fields) exactly one replace_one with upsert whose filter
\* maps each index field to the value of the item; whatever the order of
\* the upserts, a failure of one is caught and neither cancels nor prevents
\* another, and the call returns only after every upsert has completed or
\* failed, with one result per item
C20_EveryItemUpsertedOnce ==
    mongo # IdleMongo =>
        /\ mongo.pc \in {"gathering", "returned"}
        /\ Len(mongo.tasks) = Len(mongo.item_list)
        /\ \A i \in 1..Len(mongo.item_list) :
              /\ Len(IssuedFor(i)) <= 1
              /\ \A k \in 1..Len(IssuedFor(i)) :
                    UpsertOf(IssuedFor(i)[k], mongo.item_list[i])
              /\ mongo.tasks[i].state \in {"scheduled", "awaiting", "done"}
              /\ ~mongo.tasks[i].raised
              /\ mongo.tasks[i].state # "done" => mongo.pc = "gathering"
        /\ mongo.pc = "returned" =>
              /\ Len(mongo.responses) = Len(mongo.item_list)
              /\ \A i \in 1..Len(mongo.item_list) :
                    /\ Len(IssuedFor(i)) = 1
                    /\ mongo.tasks[i].state = "done"
                    /\ Len(EventsOf(i)) = 2

\* the call has returned two results after the upsert of one item failed
\* and the upsert of another item, issued after that failure, completed
C20_Witness ==
    /\ mongo # IdleMongo
    /\ mongo.pc = "returned"
    /\ Len(mongo.responses) = 2
    /\ \E i \in 1..2, j \in 1..2 :
          /\ i # j
          /\ \E a \in 1..Len(mongo.log), b \in 1..Len(mongo.log),
                c \in 1..Len(mongo.log) :
                /\ a < b /\ b < c
                /\ mongo.log[a] = <<"error", i>>
                /\ mongo.log[b] = <<"replace_one", j>>
                /\ mongo.log[c] = <<"inserted", j>>
    /\ mongo.docs # {}

====
